---- MODULE Spec2Model ----
(***************************************************************************)
(* Model of src/index.js: the App component of the GeeMansala radio        *)
(* player (React Native).                                                  *)
(*                                                                         *)
(* React semantics kept by the model:                                      *)
(*  - useState values are constants of one render.  A function defined in  *)
(*    the component body reads the values of the render that created it    *)
(*    (its closure), not the latest ones.  A button press runs the         *)
(*    function of the latest render; setTimeout(playStream) re-runs the    *)
(*    very function that scheduled it; the AppState listener and cleanup   *)
(*    registered by useEffect(..., []) are the functions of the first      *)
(*    render for the whole life of the component.                          *)
(*  - useRef values (.current) are shared and always current.              *)
(*  - an async function runs without interruption up to its next await;    *)
(*    a suspended invocation is a record in `tasks`, resumed by Resume     *)
(*    with the outcome (resolved / rejected) of the awaited call.          *)
(*                                                                         *)
(* Abstractions: a volume is an integer number of tenths (7 is 0.7);       *)
(* a re-render is taken to follow each state update at once; the controls  *)
(* of the screen are used only while the application is active; the audio  *)
(* engine, the notification service and AsyncStorage are external and any  *)
(* call to them may resolve or reject.                                     *)
(***************************************************************************)
EXTENDS Integers, Sequences, FiniteSets

\* ---------------------------------------------------------------- bounds
MaxHandles == 2
MaxUserInputs == 2
MaxTickets == 1

\* ------------------------------------------------------ program constants
Null == 0
DefaultVolume == 7
VolMin == 0
VolMax == 10
VolStep == 1
MaxReconnect == 5
RetryDelayUnit == 2000

NaN == 0 - 1000000

AppStates == {"active", "inactive", "background"}
\* the states matched by /inactive|background/
NonActive == {"inactive", "background"}

Handles == 1..MaxHandles
Tickets == 1..MaxTickets
\* values the Slider (minimumValue 0, maximumValue 1) can report
SliderValues == {VolMin, VolMax}
\* values a direct caller of changeVolume can pass
AnyVolumes == {0 - 2, 13}

\* ------------------------------------------------- number <-> string
DigitChars == <<"0", "1", "2", "3", "4", "5", "6", "7", "8", "9">>

IsDigit(ch) == \E i \in 1..10 : DigitChars[i] = ch

DigitValue(ch) == (CHOOSE i \in 1..10 : DigitChars[i] = ch) - 1

RECURSIVE IntDigits(_)
\* decimal digits of a natural number
IntDigits(n) ==
    IF n < 10 THEN <<DigitChars[n + 1]>>
    ELSE Append(IntDigits(n \div 10), DigitChars[(n % 10) + 1])

Abs(n) == IF n < 0 THEN 0 - n ELSE n

\* Number.prototype.toString of t/10: "0.7", "1", "0", "-0.2", "1.3", "NaN"
NumberToString(t) ==
    IF t = NaN THEN <<"N", "a", "N">>
    ELSE (IF t < 0 THEN <<"-">> ELSE <<>>)
         \o IntDigits(Abs(t) \div 10)
         \o (IF Abs(t) % 10 = 0 THEN <<>> ELSE <<".", DigitChars[(Abs(t) % 10) + 1]>>)

RECURSIVE LeadingDigits(_)
\* the longest prefix of s made of digits
LeadingDigits(s) ==
    IF s = <<>> \/ ~IsDigit(Head(s)) THEN <<>>
    ELSE <<Head(s)>> \o LeadingDigits(Tail(s))

RECURSIVE DigitsValue(_)
DigitsValue(ds) ==
    IF ds = <<>> THEN 0
    ELSE 10 * DigitsValue(SubSeq(ds, 1, Len(ds) - 1)) + DigitValue(ds[Len(ds)])

\* parseFloat, in tenths: optional sign, digits, optional "." and digits
\* (digits after the first decimal are below the model's resolution);
\* NaN when no digit can be read.
ParseFloat(s) ==
    LET neg == s # <<>> /\ Head(s) = "-"
        body == IF neg THEN Tail(s) ELSE s
        ip == LeadingDigits(body)
        rest == SubSeq(body, Len(ip) + 1, Len(body))
        fp == IF rest # <<>> /\ Head(rest) = "." THEN LeadingDigits(Tail(rest)) ELSE <<>>
        mag == 10 * DigitsValue(ip) + (IF fp = <<>> THEN 0 ELSE DigitValue(fp[1]))
    IN IF ip = <<>> /\ fp = <<>> THEN NaN
       ELSE IF neg THEN 0 - mag ELSE mag

\* a + b of two numbers: NaN when one of them is
Plus(a, b) == IF a = NaN \/ b = NaN THEN NaN ELSE a + b

\* Math.max(0, Math.min(1, x)): NaN for NaN
Clamp(x) ==
    IF x = NaN THEN NaN
    ELSE IF x < VolMin THEN VolMin ELSE IF x > VolMax THEN VolMax ELSE x

\* ------------------------------------------------------------------ state
VARIABLES
    \* useState, as of the latest render
    sound, isPlaying, isLoading, volume, connectionStatus,
    \* useRef
    appState, notificationId, reconnectAttempts,
    \* component mounted; the application state the OS last reported, the
    \* one it reported before that, and whether the status was connected
    \* when the last report came
    mounted, osState, prevOs, playingAtEvent,
    \* audio engine: loaded handles, the volume last issued to each, next id
    loaded, handleVol, nextHandle,
    \* notification service: shown tickets, next id, dismiss calls per ticket
    outstanding, nextTicket, dismissCalls,
    \* AsyncStorage value under 'radio_volume' (<<>>: null or empty)
    storage,
    \* suspended async invocations, pending setTimeout(playStream) timers
    tasks, timers,
    \* Alert.alert calls so far
    alertCount,
    \* play presses and volume changes made so far (MaxUserInputs), and
    \* the last command of the user: none, start, stop or setVolume
    presses, volChanges, lastCommand,
    \* history: the status was last set to idle by stopStream and no play
    \* press followed; the retry sequence being observed
    idleByStop, seq

lifecycleHist == <<prevOs, playingAtEvent>>
react == <<sound, isPlaying, isLoading, volume, connectionStatus>>
refs == <<appState, notificationId, reconnectAttempts>>
engine == <<loaded, handleVol, nextHandle>>
notif == <<outstanding, nextTicket, dismissCalls>>
input == <<presses, volChanges, lastCommand>>
hist == <<idleByStop, seq>>
vars == <<react, refs, mounted, osState, lifecycleHist, engine, notif, storage, tasks, timers,
          alertCount, input, hist>>

\* the values a function of the latest render closes over
Closure ==
    [sound |-> sound, isPlaying |-> isPlaying, isLoading |-> isLoading, volume |-> volume]

\* the same for stopStream and changeVolume, which read only sound: the
\* values they never read are left at their defaults
SoundClosure ==
    [sound |-> sound, isPlaying |-> FALSE, isLoading |-> FALSE, volume |-> DefaultVolume]

\* the values the functions of the first render close over
MountClosure ==
    [sound |-> Null, isPlaying |-> FALSE, isLoading |-> FALSE, volume |-> DefaultVolume]

\* a suspended invocation of fn, waiting at the await named pc
Task(fn, pc, id, c, arg, next) ==
    [fn |-> fn, pc |-> pc, id |-> id, c |-> c, arg |-> arg, next |-> next]

NoSeq == [phase |-> "none", failures |-> 0, alerts |-> 0, retry |-> FALSE]

PlayTasks == {t \in tasks : t.fn = "playStream"}

PlaybackTasks == {t \in tasks : t.fn \in {"playStream", "stopStream"}}

\* what a previous run of the application can have left in AsyncStorage
StoredByEarlierRun == {NumberToString(VolMax)}

\* the state after the first render and its effect (lines 21-38), with the
\* AsyncStorage value drawn from `stored`
InitWith(stored) ==
    /\ sound = Null /\ isPlaying = FALSE /\ isLoading = FALSE
    /\ volume = DefaultVolume /\ connectionStatus = "idle"
    /\ appState = "active" /\ notificationId = Null /\ reconnectAttempts = 0
    /\ mounted = TRUE /\ osState = "active" /\ prevOs = "active"
    /\ playingAtEvent = FALSE
    /\ loaded = {} /\ handleVol = [h \in Handles |-> NaN] /\ nextHandle = 1
    /\ outstanding = {} /\ nextTicket = 1 /\ dismissCalls = [k \in Tickets |-> 0]
    /\ storage \in stored
    \* initializeApp has called loadStoredVolume, which awaits getItem
    /\ tasks = {Task("loadStoredVolume", "getItem", 0, MountClosure, 0, "active")}
    /\ timers = {}
    /\ alertCount = 0
    /\ presses = 0 /\ volChanges = 0 /\ lastCommand = "none"
    /\ idleByStop = FALSE /\ seq = NoSeq

\* the first launch: nothing is stored yet
Init == InitWith({<<>>})

\* a later launch: an earlier run has stored a volume
InitRelaunch == InitWith(StoredByEarlierRun)

\* what AsyncStorage can hold under the key when something other than
\* saveVolume has written it: nothing, a number, text that is no number
StoredByAnyone == {<<>>, NumberToString(VolMin), <<"x">>}

\* a launch with any stored value
InitAnyStored == InitWith(StoredByAnyone)

\* ------------------------------------------------------------- playStream
\* lines 120-129: the guard, the two state updates, and the first await
\* (unloadAsync of the closure's sound, else createAsync)
PlayStream(c, id) ==
    IF c.isPlaying \/ c.isLoading
    THEN UNCHANGED <<isLoading, connectionStatus, tasks>>
    ELSE /\ isLoading' = TRUE
         /\ connectionStatus' = "connecting"
         /\ tasks' = tasks \cup
                {Task("playStream", IF c.sound # Null THEN "unload" ELSE "create",
                      id, c, 0, "active")}

\* the play/stop button shows play and is enabled (lines 231-234)
PressPlay ==
    /\ mounted /\ osState = "active"
    /\ ~isLoading /\ ~isPlaying
    /\ presses + volChanges < MaxUserInputs
    /\ presses' = presses + 1
    /\ lastCommand' = "start"
    /\ PlayStream(Closure, presses + 1)
    /\ idleByStop' = FALSE
    /\ seq' = IF seq.phase = "exhausted"
              THEN [seq EXCEPT !.phase = "manual"]
              ELSE IF reconnectAttempts = 0 /\ timers = {} /\ PlaybackTasks = {}
                   THEN [NoSeq EXCEPT !.phase = "running"]
                   ELSE NoSeq
    /\ UNCHANGED <<sound, isPlaying, volume, refs, mounted, osState, lifecycleHist, engine, notif,
                   storage, timers, alertCount, volChanges>>

\* setTimeout(playStream, ...) expires: the function that scheduled it runs
\* again, with the closure it had (line 148)
TimerFires ==
    \E tm \in timers :
        /\ mounted
        /\ timers' = timers \ {tm}
        /\ PlayStream(tm.c, tm.id)
        /\ UNCHANGED <<sound, isPlaying, volume, refs, mounted, osState, lifecycleHist, engine, notif,
                       storage, alertCount, input, idleByStop, seq>>

\* line 146 with <= for <
MayRetryOffByOne == reconnectAttempts <= MaxReconnect

\* line 146
MayRetry == reconnectAttempts < MaxReconnect

\* line 148 with the counter as it was before line 147
RetryDelayBeforeIncrement(attempts) == RetryDelayUnit * (attempts - 1)

\* line 148: the delay of the retry scheduled when the counter is `attempts`
RetryDelay(attempts) == RetryDelayUnit * attempts

\* lines 141-154: catch and finally of playStream
PlayStreamCatch(t) ==
    /\ connectionStatus' = "error"
    /\ isPlaying' = FALSE
    /\ IF MayRetry
       THEN /\ reconnectAttempts' = reconnectAttempts + 1
            /\ timers' = timers \cup
                   {[c |-> t.c, id |-> t.id,
                     delay |-> RetryDelay(reconnectAttempts + 1)]}
            /\ alertCount' = alertCount
       ELSE /\ alertCount' = alertCount + 1
            /\ UNCHANGED <<reconnectAttempts, timers>>
    /\ isLoading' = FALSE
    /\ tasks' = tasks \ {t}
    /\ seq' = IF seq.phase = "running"
              THEN [seq EXCEPT !.failures = @ + 1,
                               !.alerts = IF MayRetry THEN @ ELSE @ + 1,
                               !.phase = IF MayRetry THEN @ ELSE "exhausted"]
              ELSE IF seq.phase = "manual"
                   THEN [seq EXCEPT !.phase = "manualFailed",
                                    !.retry = MayRetry,
                                    !.alerts = IF MayRetry THEN @ ELSE @ + 1]
                   ELSE seq
    /\ UNCHANGED <<sound, volume, appState, notificationId, engine, notif, storage,
                   idleByStop>>

\* line 139 left out
AttemptsKept(attempts) == attempts

\* line 139
AttemptsReset(attempts) == 0

\* lines 131-139 and 153: createAsync resolved with a new, playing handle
PlayStreamCreated(t) ==
    /\ loaded' = loaded \cup {nextHandle}
    /\ handleVol' = [handleVol EXCEPT ![nextHandle] = t.c.volume]
    /\ nextHandle' = nextHandle + 1
    /\ sound' = nextHandle
    /\ isPlaying' = TRUE
    /\ connectionStatus' = "connected"
    /\ reconnectAttempts' = AttemptsReset(reconnectAttempts)
    /\ isLoading' = FALSE
    /\ tasks' = tasks \ {t}
    /\ seq' = NoSeq
    /\ UNCHANGED <<volume, appState, notificationId, notif, storage, timers,
                   alertCount, idleByStop>>

\* lines 127-131: unloadAsync of the closure's sound resolved, createAsync called
PlayStreamUnloaded(t) ==
    /\ loaded' = loaded \ {t.c.sound}
    /\ tasks' = (tasks \ {t}) \cup {[t EXCEPT !.pc = "create"]}
    /\ UNCHANGED <<react, refs, handleVol, nextHandle, notif, storage, timers,
                   alertCount, idleByStop, seq>>

PlayStreamResume(t, ok) ==
    IF ~ok THEN PlayStreamCatch(t)
    ELSE IF t.pc = "unload" THEN PlayStreamUnloaded(t)
    ELSE PlayStreamCreated(t)

\* ------------------------------------------------------------- stopStream
\* lines 164-169: after the handle is gone; dismissNotificationAsync is
\* called when the ticket ref is set. `rest` are the other suspended tasks.
StopStreamTail(t, rest) ==
    /\ isPlaying' = FALSE
    /\ connectionStatus' = "idle"
    /\ idleByStop' = TRUE
    /\ IF notificationId # Null
       THEN /\ tasks' = rest \cup {[t EXCEPT !.pc = "dismiss", !.arg = notificationId]}
            /\ dismissCalls' = [dismissCalls EXCEPT ![notificationId] = @ + 1]
       ELSE /\ tasks' = rest
            /\ dismissCalls' = dismissCalls

\* lines 157-160: stopStream is invoked. An invocation identical to a
\* suspended one is not added.
StopStream ==
    LET t == Task("stopStream", "stopAsync", 0, SoundClosure, 0, "active") IN
    /\ mounted
    /\ t \notin tasks
    /\ lastCommand' = "stop"
    /\ IF t.c.sound # Null
       THEN /\ tasks' = tasks \cup {t}
            /\ UNCHANGED <<isPlaying, connectionStatus, idleByStop, dismissCalls>>
       ELSE StopStreamTail(t, tasks)
    /\ UNCHANGED <<sound, isLoading, volume, refs, mounted, osState, lifecycleHist, engine,
                   outstanding, nextTicket, storage, timers, alertCount, presses,
                   volChanges, seq>>

\* the play/stop button shows stop and is enabled (lines 231-234)
PressStop == osState = "active" /\ ~isLoading /\ isPlaying /\ StopStream

\* stopStream called while the status is idle, when the button offers play
CallStopStream == connectionStatus = "idle" /\ StopStream

\* lines 170-172: the catch of stopStream only logs
StopStreamCatch(t) ==
    /\ tasks' = tasks \ {t}
    /\ dismissCalls' = IF t.pc = "dismiss"
                       THEN [dismissCalls EXCEPT ![t.arg] = @ - 1]
                       ELSE dismissCalls
    /\ UNCHANGED <<react, refs, engine, outstanding, nextTicket, idleByStop>>

\* line 160-161: stopAsync resolved, unloadAsync called
StopStreamStopped(t) ==
    /\ tasks' = (tasks \ {t}) \cup {[t EXCEPT !.pc = "unloadAsync"]}
    /\ UNCHANGED <<react, refs, engine, notif, idleByStop>>

\* lines 161-166 without line 162: the unloaded sound stays stored
StopStreamUnloadedKeepsSound(t) ==
    /\ loaded' = loaded \ {t.c.sound}
    /\ sound' = sound
    /\ StopStreamTail(t, tasks \ {t})
    /\ UNCHANGED <<isLoading, volume, refs, handleVol, nextHandle, outstanding,
                   nextTicket>>

\* lines 161-166: unloadAsync resolved
StopStreamUnloaded(t) ==
    /\ loaded' = loaded \ {t.c.sound}
    /\ sound' = Null
    /\ StopStreamTail(t, tasks \ {t})
    /\ UNCHANGED <<isLoading, volume, refs, handleVol, nextHandle, outstanding,
                   nextTicket>>

\* lines 167-168: dismissNotificationAsync resolved
StopStreamDismissed(t) ==
    /\ outstanding' = outstanding \ {t.arg}
    /\ notificationId' = Null
    /\ tasks' = tasks \ {t}
    /\ UNCHANGED <<react, appState, reconnectAttempts, engine, nextTicket,
                   dismissCalls, idleByStop>>

StopStreamResume(t, ok) ==
    /\ IF ~ok THEN StopStreamCatch(t)
       ELSE IF t.pc = "stopAsync" THEN StopStreamStopped(t)
       ELSE IF t.pc = "unloadAsync" THEN StopStreamUnloaded(t)
       ELSE StopStreamDismissed(t)
    /\ UNCHANGED <<storage, timers, alertCount, seq>>

\* ----------------------------------------------------------- changeVolume
\* lines 175-177 with saveVolume called only when a sound is stored
ChangeVolumeSavesWhenPlaying(v) ==
    /\ mounted /\ osState = "active"
    /\ presses + volChanges < MaxUserInputs
    /\ volChanges' = volChanges + 1
    /\ lastCommand' = "setVolume"
    /\ volume' = v
    /\ tasks' = IF sound # Null
                THEN tasks \cup {Task("changeVolume", "setItem", volChanges + 1,
                                      SoundClosure, v, "active")}
                ELSE tasks
    /\ UNCHANGED <<sound, isPlaying, isLoading, connectionStatus, refs, mounted,
                   osState, lifecycleHist, engine, notif, storage, timers, alertCount, presses,
                   idleByStop, seq>>

\* lines 175-177 and 85-87: setVolume, then saveVolume awaits setItem
ChangeVolume(v) ==
    /\ mounted /\ osState = "active"
    /\ presses + volChanges < MaxUserInputs
    /\ volChanges' = volChanges + 1
    /\ lastCommand' = "setVolume"
    /\ volume' = v
    /\ tasks' = tasks \cup
           {Task("changeVolume", "setItem", volChanges + 1, SoundClosure, v, "active")}
    /\ UNCHANGED <<sound, isPlaying, isLoading, connectionStatus, refs, mounted,
                   osState, lifecycleHist, engine, notif, storage, timers, alertCount, presses,
                   idleByStop, seq>>

\* the Slider's onValueChange (lines 261-269)
SlideVolume == \E v \in SliderValues : ChangeVolume(v)

\* lines 187-190, called with -0.1 and 0.1 (lines 251, 254)
AdjustVolume == \E inc \in {0 - VolStep, VolStep} : ChangeVolume(Clamp(Plus(volume, inc)))

\* changeVolume called with a value no control of the screen produces
CallChangeVolume == \E v \in AnyVolumes : ChangeVolume(v)

\* lines 87-90 and 178: setItem settled (a rejection is logged by saveVolume);
\* setVolumeAsync is called when the closure holds a sound
ChangeVolumeSaved(t, ok) ==
    /\ storage' = IF ok THEN NumberToString(t.arg) ELSE storage
    /\ tasks' = IF t.c.sound # Null
                THEN (tasks \ {t}) \cup {[t EXCEPT !.pc = "setVolumeAsync"]}
                ELSE tasks \ {t}
    /\ handleVol' = handleVol

\* lines 179-183: setVolumeAsync settled (a rejection is logged)
ChangeVolumeApplied(t, ok) ==
    /\ handleVol' = IF ok /\ t.c.sound \in loaded
                    THEN [handleVol EXCEPT ![t.c.sound] = t.arg]
                    ELSE handleVol
    /\ tasks' = tasks \ {t}
    /\ storage' = storage

ChangeVolumeResume(t, ok) ==
    /\ IF t.pc = "setItem" THEN ChangeVolumeSaved(t, ok) ELSE ChangeVolumeApplied(t, ok)
    /\ UNCHANGED <<react, refs, loaded, nextHandle, notif, timers, alertCount,
                   idleByStop, seq>>

\* -------------------------------------------------------- loadStoredVolume
\* lines 74-83: getItem settled; a truthy string is parsed and stored
LoadStoredVolumeResume(t, ok) ==
    /\ volume' = IF ok /\ storage # <<>> THEN ParseFloat(storage) ELSE volume
    /\ tasks' = tasks \ {t}
    /\ UNCHANGED <<sound, isPlaying, isLoading, connectionStatus, refs, engine,
                   notif, storage, timers, alertCount, idleByStop, seq>>

\* ---------------------------------------------------- handleAppStateChange
\* line 99 reading the isPlaying of the latest render
ListenerIsPlayingLatest == isPlaying

\* the isPlaying read at line 99: the listener is the function of the
\* first render (useEffect with no dependencies, lines 31-38)
ListenerIsPlaying == MountClosure.isPlaying

\* lines 93-103, up to the first await; the OS reports a new state
HandleAppStateChange(nextAppState) ==
    LET t == Task("handleAppStateChange", "dismiss", 0, MountClosure, notificationId,
                  nextAppState) IN
    /\ mounted
    /\ nextAppState # osState
    /\ osState' = nextAppState
    /\ prevOs' = osState
    /\ playingAtEvent' = (connectionStatus = "connected")
    /\ IF appState \in NonActive /\ nextAppState = "active"
       THEN IF notificationId # Null
            THEN /\ tasks' = tasks \cup {t}
                 /\ dismissCalls' = [dismissCalls EXCEPT ![notificationId] = @ + 1]
                 /\ appState' = appState
            ELSE /\ appState' = nextAppState
                 /\ UNCHANGED <<tasks, dismissCalls>>
       ELSE IF nextAppState \in NonActive /\ ListenerIsPlaying
            THEN /\ tasks' = tasks \cup {[t EXCEPT !.pc = "schedule", !.arg = 0]}
                 /\ UNCHANGED <<appState, dismissCalls>>
            ELSE /\ appState' = nextAppState
                 /\ UNCHANGED <<tasks, dismissCalls>>
    /\ UNCHANGED <<react, notificationId, reconnectAttempts, mounted, engine,
                   outstanding, nextTicket, storage, timers, alertCount, input,
                   idleByStop, seq>>

AppStateChanges == \E nextAppState \in AppStates : HandleAppStateChange(nextAppState)

\* lines 96-97 and 102: dismissNotificationAsync resolved; a rejection ends
\* the handler before line 102
HandleDismissed(t, ok) ==
    /\ outstanding' = IF ok THEN outstanding \ {t.arg} ELSE outstanding
    /\ notificationId' = IF ok THEN Null ELSE notificationId
    /\ appState' = IF ok THEN t.next ELSE appState
    /\ dismissCalls' = IF ok THEN dismissCalls
                       ELSE [dismissCalls EXCEPT ![t.arg] = @ - 1]
    /\ nextTicket' = nextTicket

\* lines 105-118 and 102: scheduleNotificationAsync settled (a rejection is
\* logged by showBackgroundNotification)
HandleScheduled(t, ok) ==
    /\ outstanding' = IF ok THEN outstanding \cup {nextTicket} ELSE outstanding
    /\ notificationId' = IF ok THEN nextTicket ELSE notificationId
    /\ nextTicket' = IF ok THEN nextTicket + 1 ELSE nextTicket
    /\ appState' = t.next
    /\ dismissCalls' = dismissCalls

HandleAppStateChangeResume(t, ok) ==
    /\ IF t.pc = "dismiss" THEN HandleDismissed(t, ok) ELSE HandleScheduled(t, ok)
    /\ tasks' = tasks \ {t}
    /\ UNCHANGED <<react, reconnectAttempts, engine, storage, timers, alertCount,
                   idleByStop, seq>>

\* ---------------------------------------------------------------- unmount
\* lines 34-37 and 192-196: the listener is removed and cleanup runs, the
\* function of the first render. The component is the root of the
\* application: nothing is delivered to it after teardown.
Unmount ==
    /\ mounted
    /\ mounted' = FALSE
    /\ tasks' = IF MountClosure.sound # Null
                THEN tasks \cup {Task("cleanup", "unloadAsync", 0, MountClosure, 0, "active")}
                ELSE tasks
    /\ UNCHANGED <<react, refs, osState, lifecycleHist, engine, notif, storage, timers,
                   alertCount, input, idleByStop, seq>>

\* ----------------------------------------------------------- event loop
\* a free id is needed for createAsync or scheduleNotificationAsync to
\* resolve (MaxHandles, MaxTickets)
CanResolve(t) ==
    /\ (t.fn = "playStream" /\ t.pc = "create") => nextHandle <= MaxHandles
    /\ (t.fn = "handleAppStateChange" /\ t.pc = "schedule") => nextTicket <= MaxTickets

\* the awaited call of a suspended invocation settles and the invocation
\* runs on to its next await or its end
Continue(t, ok) ==
    CASE t.fn = "playStream" -> PlayStreamResume(t, ok)
      [] t.fn = "stopStream" -> StopStreamResume(t, ok)
      [] t.fn = "changeVolume" -> ChangeVolumeResume(t, ok)
      [] t.fn = "loadStoredVolume" -> LoadStoredVolumeResume(t, ok)
      [] OTHER -> HandleAppStateChangeResume(t, ok)

Resume ==
    \E t \in tasks, ok \in BOOLEAN :
        /\ mounted
        /\ ok => CanResolve(t)
        /\ Continue(t, ok)
        /\ UNCHANGED <<mounted, osState, lifecycleHist, input>>

Next ==
    \/ PressPlay
    \/ TimerFires
    \/ PressStop
    \/ SlideVolume
    \/ AdjustVolume
    \/ AppStateChanges
    \/ Resume

Spec == Init /\ [][Next]_vars

\* the same program with changeVolume also callable with any value and
\* stopStream also callable while idle
NextApi == Next \/ CallChangeVolume \/ CallStopStream

SpecApi == Init /\ [][NextApi]_vars

\* the same program with the teardown of the component
NextTeardown == Next \/ Unmount

SpecTeardown == Init /\ [][NextTeardown]_vars

\* the same program launched again
SpecRelaunch == InitRelaunch /\ [][Next]_vars

\* the same program launched with any stored value
SpecAnyStored == InitAnyStored /\ [][Next]_vars

\* the same program when every awaited call settles and every timer
\* expires: a suspended invocation is resumed, a pending timer fires
SpecLive == Init /\ [][Next]_vars /\ WF_vars(Resume) /\ WF_vars(TimerFires)

\* ================================================================ claims
\* the status of the specification's PlaybackSession is connectionStatus:
\* idle, connecting, connected (Playing), error
Busy == connectionStatus \in {"connecting", "connected"}

\* this step invokes playStream: a play press or an expired retry timer
PlayStreamInvoked == presses' # presses \/ (\E tm \in timers : tm \notin timers')

\* this step ends an invocation of stopStream (by its last line or its catch)
StopStreamEnds ==
    \E t \in tasks : /\ t.fn = "stopStream" /\ t \notin tasks'
                     /\ ~(\E u \in tasks' \ tasks : u.fn = "stopStream")

ScheduleTasks(ts) == {t \in ts : t.fn = "handleAppStateChange" /\ t.pc = "schedule"}

DismissTasks(ts) == {t \in ts : t.pc = "dismiss"}

InRange(v) == VolMin <= v /\ v <= VolMax

\* C1: every invocation of playStream made while the status is Connecting
\* or Playing, by the user or by a retry timer, is a no-op: no acquisition
\* is started, the status and reconnectAttempts stay as they are.
C1_StartWhileBusyIsNoOp ==
    [][(PlayStreamInvoked /\ Busy) =>
           /\ {t \in tasks' : t.fn = "playStream"} \subseteq PlayTasks
           /\ connectionStatus' = connectionStatus
           /\ reconnectAttempts' = reconnectAttempts]_vars

\* C2: once stopStream has set the status to Idle, nothing but a new play
\* press of the user makes it Connecting or Playing again.
C2_StopStaysIdle == idleByStop => ~Busy

\* C3: at most one audio handle is live (loaded and not unloaded).
C3_OneLiveHandle == Cardinality(loaded) <= 1

\* C4, as stated: from reconnectAttempts = 0, after exactly 5 consecutive
\* failures no retry is pending or running, the status is Error and the
\* alert has been shown once.
C4_FiveFailuresAreTerminal ==
    (seq.phase \in {"running", "exhausted"} /\ seq.failures = MaxReconnect) =>
        /\ timers = {} /\ PlayTasks = {}
        /\ connectionStatus = "error"
        /\ seq.alerts = 1

\* C4, amended: from a play press made with reconnectAttempts = 0, no retry
\* timer and no playStream or stopStream pending, and with no other play
\* press, each of the first 5 consecutive failures schedules a retry and
\* shows no alert; the 6th failure (of the 5th retry) shows the alert, once,
\* and leaves the status Error and nothing pending or running.
C4_SixFailuresAreTerminal ==
    /\ seq.phase = "running" =>
           /\ seq.failures <= MaxReconnect
           /\ seq.alerts = 0
           /\ seq.failures >= 1 => Cardinality(timers) + Cardinality(PlayTasks) = 1
    /\ seq.phase = "exhausted" =>
           /\ seq.failures = MaxReconnect + 1
           /\ seq.alerts = 1
           /\ timers = {} /\ PlayTasks = {}
           /\ connectionStatus = "error"
           /\ reconnectAttempts = MaxReconnect

C4_Witness == seq.phase = "exhausted" /\ alertCount = 1

\* C5: after the alert of an exhausted retry sequence, the failure of a
\* play press of the user schedules a retry and shows no further alert.
C5_ManualStartResetsAttempts ==
    seq.phase = "manualFailed" => (seq.retry /\ seq.alerts = 1 /\ timers # {})

\* C6: an invocation of stopStream ends with the status Idle and no sound
\* stored, also when stopAsync or unloadAsync rejects.
C6_StopAlwaysReachesIdle ==
    [][StopStreamEnds => (connectionStatus' = "idle" /\ sound' = Null)]_vars

\* C7: when the application leaves Active, exactly one notification is
\* requested if the status is Playing at that time, and none otherwise.
C7_NotifiesIffPlaying ==
    [][(osState = "active" /\ osState' \in NonActive) =>
           Cardinality(ScheduleTasks(tasks') \ tasks) =
               (IF connectionStatus = "connected" THEN 1 ELSE 0)]_vars

\* C8: at most one ticket is outstanding, none is requested while one is
\* outstanding, and Active -> Inactive -> Background while Playing ends
\* with one notification requested or shown, not two (and not none).
C8_OneTicket ==
    [][/\ Cardinality(outstanding') <= 1
       /\ (outstanding # {} => ScheduleTasks(tasks') \subseteq tasks)
       /\ (/\ prevOs = "active" /\ osState = "inactive" /\ osState' = "background"
           /\ playingAtEvent /\ connectionStatus = "connected")
          => Cardinality(outstanding') + Cardinality(ScheduleTasks(tasks')) = 1]_vars

C10_VolumeIsClamped ==
    [][/\ \A t \in tasks' \ tasks :
              (t.fn = "changeVolume" /\ t.pc = "setItem") => volume' = Clamp(t.arg)
       /\ InRange(volume')
       /\ (storage' # <<>> => InRange(ParseFloat(storage')))
       /\ \A h \in loaded' : InRange(handleVol'[h])]_vars

\* ---------------------------------------------------------------- C11
VolumeTasks == {t \in tasks : t.fn \in {"changeVolume", "loadStoredVolume"}}

\* C11: whenever the status is Playing and no volume change is in
\* progress, a sound is stored, it is loaded, and the volume last issued
\* to it is the volume of the session.
C11_PlayingHandleHasSessionVolume ==
    (connectionStatus = "connected" /\ VolumeTasks = {}) =>
        /\ sound # Null
        /\ sound \in loaded
        /\ handleVol[sound] = volume

\* ---------------------------------------------------------------- C12
\* this step invokes stopStream and the invocation releases a handle or
\* requests a dismissal: a stopStream invocation appears that waits for
\* stopAsync or for dismissNotificationAsync, and none has gone
StopStreamActs ==
    /\ tasks \subseteq tasks'
    /\ \E t \in tasks' \ tasks : t.fn = "stopStream"

Parses(s) == s # <<>> /\ ParseFloat(s) # NaN

\* this step ends loadStoredVolume
LoadStoredVolumeEnds == \E t \in tasks : t.fn = "loadStoredVolume" /\ t \notin tasks'

\* C13: loadStoredVolume changes the volume only to the number the stored
\* value parses to; with nothing stored, or a stored value that is no
\* number, or a failed read, the volume stays as it was (the default).
C13_LoadKeepsDefaultUnlessNumber ==
    [][LoadStoredVolumeEnds =>
           /\ volume' # volume => (Parses(storage) /\ volume' = ParseFloat(storage))
           /\ ~Parses(storage) => volume' = volume]_vars

\* ---------------------------------------------------------------- C14
\* the handles a cleanup invocation is about to unload
BeingReleased == {t.c.sound : t \in {u \in tasks : u.fn = "cleanup"}}

\* C14: once the component is unmounted, every loaded handle has been
\* unloaded or is being unloaded by cleanup.
C14_TeardownReleasesHandle == ~mounted => loaded \subseteq BeingReleased

\* ---------------------------------------------------------------- C15
\* this step is a successful acquisition: createAsync resolved
AcquisitionSucceeds == nextHandle' # nextHandle

\* C15: a successful acquisition leaves the status Playing and
\* reconnectAttempts 0.
C15_SuccessResetsAttempts ==
    [][AcquisitionSucceeds =>
           (connectionStatus' = "connected" /\ reconnectAttempts' = 0)]_vars

\* an acquisition has succeeded after the alert of an exhausted retry
\* sequence, shown with reconnectAttempts = 5: the success has reset it
C15_Witness ==
    /\ alertCount >= 1
    /\ connectionStatus = "connected" /\ sound \in loaded
    /\ reconnectAttempts = 0

\* ---------------------------------------------------------------- C16
\* C16: every retry is scheduled with the delay k * 2000 ms, k in 1..5
\* being the value of reconnectAttempts after the increment made by the
\* failure that schedules it; so in a failure sequence started from
\* reconnectAttempts = 0, the retry scheduled by the k-th failure has the
\* delay k * 2000 ms: 2000, 4000, 6000, 8000, 10000 in that order.
C16_RetryDelayIsLinear ==
    [][/\ \A tm \in timers' \ timers :
              /\ reconnectAttempts' = reconnectAttempts + 1
              /\ reconnectAttempts' \in 1..MaxReconnect
              /\ tm.delay = RetryDelayUnit * reconnectAttempts'
       /\ seq'.phase = "running" =>
              \A tm \in timers' : tm.delay = RetryDelayUnit * seq'.failures]_vars

\* the 5th failure of a sequence has scheduled the last retry, 10 s later
C16_Witness ==
    /\ seq.phase = "running" /\ seq.failures = MaxReconnect
    /\ \E tm \in timers : tm.delay = RetryDelayUnit * MaxReconnect

\* ---------------------------------------------------------------- C17
\* this step is a changeVolume call
ChangeVolumeCalled == volChanges' # volChanges

\* this step resumes a changeVolume invocation: setItem or setVolumeAsync
\* has settled
ChangeVolumeContinues == \E t \in tasks : t.fn = "changeVolume" /\ t \notin tasks'

\* C17: every changeVolume call requests the new volume to be saved,
\* whether or not a sound is stored, and whatever setItem and
\* setVolumeAsync do, the status, the stored sound and reconnectAttempts
\* stay as they are.
C17_VolumeAlwaysSavedAndFailuresContained ==
    [][/\ ChangeVolumeCalled =>
              \E t \in tasks' \ tasks :
                  t.fn = "changeVolume" /\ t.pc = "setItem" /\ t.arg = volume'
       /\ (ChangeVolumeCalled \/ ChangeVolumeContinues) =>
              UNCHANGED <<connectionStatus, sound, reconnectAttempts>>]_vars

\* a volume change made while Playing: its setItem has rejected (nothing
\* is stored), setVolumeAsync is awaited, and the status, the sound and
\* the counter are those of the playing session
C17_Witness ==
    /\ connectionStatus = "connected" /\ sound # Null /\ reconnectAttempts = 0
    /\ storage = <<>>
    /\ \E t \in tasks : t.fn = "changeVolume" /\ t.pc = "setVolumeAsync"

\* ---------------------------------------------------------------- C18
\* C18: 0 <= reconnectAttempts <= 5 in every reachable state.
C18_AttemptsWithinBounds == 0 <= reconnectAttempts /\ reconnectAttempts <= MaxReconnect

\* the counter is at its maximum while two playStream chains, of two play
\* presses, are still retrying
C18_Witness ==
    /\ reconnectAttempts = MaxReconnect
    /\ presses = 2
    /\ Cardinality({tm.id : tm \in timers} \cup {t.id : t \in PlayTasks}) = 2

\* ---------------------------------------------------------------- C19
\* nothing of playStream is pending and its outcome is on the screen
Settled ==
    /\ PlayTasks = {} /\ timers = {}
    /\ ~isLoading
    /\ \/ connectionStatus = "connected"
       \/ connectionStatus = "error" /\ alertCount >= 1

HandlerTasks == {t \in tasks : t.fn = "handleAppStateChange"}

====
